---------------------------- MODULE Spec2Model ----------------------------
(***************************************************************************)
(* howtfdoi (main.go): configuration, provider stream aggregation,         *)
(* response parsing, the safety matcher and the response pipeline          *)
(* (display, safety warning, history, clipboard, confirmed execution), in  *)
(* single-query and interactive mode.                                      *)
(*                                                                         *)
(* Text is a sequence of one-character strings, so that splitting,         *)
(* trimming, lower-casing and joining are computed as the Go code does.    *)
(***************************************************************************)
EXTENDS Integers, Sequences, FiniteSets, TLC

VARIABLES
    environ,       \* the environment variables setupConfig reads
    fileConfig,    \* the FileConfig loadConfigFile returns
    firstTimeSetup,\* <<answers>> given to runFirstTimeSetup on a terminal, or <<>>
    apiKey,        \* Config.APIKey
    lmStudioBaseURL, \* Config.LMStudioBaseURL
    lmStudioModel, \* Config.LMStudioModel
    provider,      \* Config.Provider
    verbose,       \* Config.Verbose
    platform,      \* Config.Platform
    mode,          \* "single" (arguments given) or "interactive"
    pc,            \* position of the process
    nQueries,      \* queries started in this process
    providersMade, \* the providers runQuery has constructed, oldest first
    line,          \* the line rl.Readline returned last
    query,         \* the query being processed
    opts,          \* ResponseOptions of the query being processed
    showExamples,  \* the -e flag of the query being processed
    request,       \* <<prompts>> given to Provider.Query for the current query
    stream,        \* the provider stream of the current Query call
    fullResponse,  \* strings.Builder of the current Query call
    events,        \* events delivered by the backend to the current Query call
    qres,          \* (text, err) returned by Provider.Query
    parseIn,       \* argument of the last parseResponse call
    response,      \* *Response returned by runQuery
    trace,         \* observable effects of the current handleResponse call
    historyFile,   \* contents of Config.HistoryFile
    historyHandles,\* open file handles on Config.HistoryFile
    confirmIn,     \* what executeCommand read from standard input
    stdin,         \* bytes waiting on standard input, read by nobody yet
    exitCode       \* <<status>> once the process has exited, <<>> before

vars == <<environ, fileConfig, firstTimeSetup, apiKey, lmStudioBaseURL,
          lmStudioModel, provider, verbose, platform, mode, pc, nQueries,
          providersMade, line, query, opts, showExamples, request, stream,
          fullResponse, events, qres, parseIn, response, trace, historyFile,
          historyHandles, confirmIn, stdin, exitCode>>

----------------------------------------------------------------------------
(* Bounds *)

MaxLen == 5        \* longest text given to parseResponse in SpecParse
MaxStream == 3     \* most events of one stream in SpecQuery
MaxEvents == 1     \* most events of one stream in Spec
MaxQueries == 2    \* most queries of one interactive session in Spec

----------------------------------------------------------------------------
(* Characters and strings *)

NL == "\n"

\* unicode.IsSpace on the characters that occur (White_Space, Latin-1 part)
IsSpace(c) == c \in {" ", "\t", "\n", "\r", "\f", "\\v"}

\* strings.Index(s, "\n") + 1, or 0 when there is none
IndexNL(s) ==
    IF \E k \in 1..Len(s) : s[k] = NL
    THEN CHOOSE k \in 1..Len(s) : s[k] = NL /\ \A j \in 1..(k-1) : s[j] # NL
    ELSE 0

\* strings.Split(s, "\n")
RECURSIVE Split(_)
Split(s) ==
    LET i == IndexNL(s)
    IN  IF i = 0 THEN <<s>>
        ELSE <<SubSeq(s, 1, i-1)>> \o Split(SubSeq(s, i+1, Len(s)))

RECURSIVE TrimLeft(_)
TrimLeft(s) ==
    IF s # <<>> /\ IsSpace(Head(s)) THEN TrimLeft(Tail(s)) ELSE s

RECURSIVE TrimRight(_)
TrimRight(s) ==
    IF s # <<>> /\ IsSpace(s[Len(s)]) THEN TrimRight(SubSeq(s, 1, Len(s)-1)) ELSE s

TrimSpaceLeftOnly(s) == TrimLeft(s)

\* strings.TrimSpace
TrimSpace(s) == TrimRight(TrimLeft(s))

RECURSIVE JoinNoSeparator(_)
JoinNoSeparator(elems) ==
    IF elems = <<>> THEN <<>> ELSE elems[1] \o JoinNoSeparator(Tail(elems))

\* strings.Join(elems, "\n")
RECURSIVE Join(_)
Join(elems) ==
    IF elems = <<>> THEN <<>>
    ELSE IF Len(elems) = 1 THEN elems[1]
    ELSE elems[1] \o <<NL>> \o Join(Tail(elems))

\* strings.Join(elems, " ")
RECURSIVE JoinSpace(_)
JoinSpace(elems) ==
    IF elems = <<>> THEN <<>>
    ELSE IF Len(elems) = 1 THEN elems[1]
    ELSE elems[1] \o <<" ">> \o JoinSpace(Tail(elems))

\* the length of the longest prefix of s without a space character
RECURSIVE FieldLen(_)
FieldLen(s) == IF s = <<>> \/ IsSpace(Head(s)) THEN 0 ELSE 1 + FieldLen(Tail(s))

\* strings.Fields(s): the runs of characters between space characters
RECURSIVE Fields(_)
Fields(s) ==
    LET t == TrimLeft(s)
    IN  IF t = <<>> THEN <<>>
        ELSE <<SubSeq(t, 1, FieldLen(t))>>
                 \o Fields(SubSeq(t, FieldLen(t) + 1, Len(t)))

\* unicode.ToLower on the characters that occur
LowerChar(c) ==
    CASE c = "Y" -> "y"
      [] c = "E" -> "e"
      [] c = "S" -> "s"
      [] c = "N" -> "n"
      [] OTHER -> c

\* strings.ToLower
ToLower(s) == [k \in 1..Len(s) |-> LowerChar(s[k])]

----------------------------------------------------------------------------
(* parseResponse, main.go 789-814 *)

NonEmptyLinesKeepBlank(lines) == [k \in 1..Len(lines) |-> TrimSpace(lines[k])]

\* the loop of lines 796-801: the trimmed lines that are not empty
RECURSIVE NonEmptyLines(_)
NonEmptyLines(lines) ==
    IF lines = <<>> THEN <<>>
    ELSE LET trimmed == TrimSpace(Head(lines))
         IN  (IF trimmed # <<>> THEN <<trimmed>> ELSE <<>>)
                 \o NonEmptyLines(Tail(lines))

parseResponse(text) ==
    LET lines == Split(text)
        nonEmptyLines == NonEmptyLines(lines)
    IN  [Command     |-> IF Len(nonEmptyLines) > 0 THEN nonEmptyLines[1] ELSE <<>>,
         Explanation |-> IF Len(nonEmptyLines) > 1
                         THEN Join(Tail(nonEmptyLines)) ELSE <<>>,
         FullText    |-> text]

----------------------------------------------------------------------------
(* Inputs of the main specification *)

Providers == {"anthropic", "openai", "lmstudio"}
Modes == {"single", "interactive"}

\* text fragments a backend may deliver: "ls\nok", a newline, "rm -rf /"
FragLs == <<"l", "s", NL, "o", "k">>
FragNL == <<NL>>
FragRm == <<"r", "m", " ", "-", "r", "f", " ", "/">>
Fragments == {FragLs, FragNL, FragRm}

\* queries the user may ask
Queries == {<<"q">>}

\* lines the user may type in interactive mode: the query with and without
\* the -c and -x flags
Lines ==
    { <<"q">>, <<"q", " ", "-", "c">>, <<"-", "x", " ", "q">>,
      <<"-", "c", " ", "q", " ", "-", "x">> }

AllOptions == [CopyToClipboard : BOOLEAN, Execute : BOOLEAN]
NoOptions == [CopyToClipboard |-> FALSE, Execute |-> FALSE]

\* what reader.ReadString('\n') may return in executeCommand; the inputs
\* without a final newline are those cut short by end-of-input
ConfirmInputs ==
    { <<"y", NL>>, <<"Y", "E", "S", "\r", NL>>, <<" ", "y", "e", "s">>,
      <<"n", NL>>, <<"y", "y", NL>>, <<NL>>, <<>> }

\* events of the Anthropic stream: the event type and the text it carries
AnthropicEvents ==
    [Type : {"content_block_delta"}, Text : Fragments \cup {<<>>}]
        \cup [Type : {"content_block_start"}, Text : {FragLs}]

\* chunks of an OpenAI-compatible stream: the choices with their delta content
OpenAIChunks ==
    {[Choices |-> <<>>]}
        \cup {[Choices |-> <<[Content |-> f]>>] : f \in Fragments \cup {<<>>}}

NoResult == [text |-> <<>>, err |-> FALSE, set |-> FALSE]

----------------------------------------------------------------------------
(* Provider.Query: the three variants, main.go 131-170, 185-221, 244-280 *)

WriteStringPrepend(b, s) == s \o b

\* strings.Builder.WriteString
WriteString(b, s) == b \o s

QueryErrorPartial(b) == [text |-> b, err |-> TRUE, set |-> TRUE]

\* return "", err
QueryError(b) == [text |-> <<>>, err |-> TRUE, set |-> TRUE]

\* return fullResponse.String(), nil
QueryOk(b) == [text |-> b, err |-> FALSE, set |-> TRUE]

\* body of the loop of lines 156-163
AnthropicAppend(b, event) ==
    IF event.Type = "content_block_delta" THEN WriteString(b, event.Text) ELSE b

\* lines 215-217
OpenAIAppend(b, chunk) ==
    IF Len(chunk.Choices) > 0 THEN WriteString(b, chunk.Choices[1].Content) ELSE b

LMStudioAppendLine(b, chunk) ==
    IF Len(chunk.Choices) > 0
    THEN WriteString(b, chunk.Choices[1].Content \o <<NL>>) ELSE b

\* lines 274-276
LMStudioAppend(b, chunk) ==
    IF Len(chunk.Choices) > 0 THEN WriteString(b, chunk.Choices[1].Content) ELSE b

----------------------------------------------------------------------------
(* dangerousPatterns and isDangerous, main.go 66-77 and 867-874 *)

\* the pieces a pattern is made of
Lit(chars) == [k |-> "lit", v |-> chars]
Ws1 == [k |-> "ws+", v |-> <<>>]      \* \s+
Ws0 == [k |-> "ws*", v |-> <<>>]      \* \s*
Any0 == [k |-> "any*", v |-> <<>>]    \* .*

\* \s of the regexp package
RegexSpace(c) == c \in {"\t", "\n", "\f", "\r", " "}

HasLit(s, i, lit) ==
    /\ i + Len(lit) - 1 <= Len(s)
    /\ SubSeq(s, i, i + Len(lit) - 1) = lit

\* the positions where a match of item can end when it starts at one of P
StepItem(item, s, P) ==
    CASE item.k = "lit" ->
            {p + Len(item.v) : p \in {q \in P : HasLit(s, q, item.v)}}
      [] item.k = "ws+" ->
            {q \in 1..(Len(s)+1) :
                \E p \in P : q > p /\ \A i \in p..(q-1) : RegexSpace(s[i])}
      [] item.k = "ws*" ->
            {q \in 1..(Len(s)+1) :
                \E p \in P : q >= p /\ \A i \in p..(q-1) : RegexSpace(s[i])}
      [] item.k = "any*" ->
            {q \in 1..(Len(s)+1) :
                \E p \in P : q >= p /\ \A i \in p..(q-1) : s[i] # NL}

RECURSIVE MatchEnds(_, _, _)
MatchEnds(items, s, P) ==
    IF items = <<>> THEN P
    ELSE MatchEnds(Tail(items), s, StepItem(Head(items), s, P))

\* Each pattern is the set of its alternatives. In the fifth, "()" is an empty
\* group, "{" and "}" are literals and "|" separates two alternatives.
dangerousPatterns ==
    << { <<Lit(<<"r","m">>), Ws1, Lit(<<"-","r","f">>), Ws1, Lit(<<"/">>)>> },
       { <<Lit(<<"r","m">>), Ws1, Lit(<<"-","r","f">>), Ws1, Lit(<<"*">>)>> },
       { <<Lit(<<"d","d">>), Ws1, Any0, Lit(<<"o","f","=","/","d","e","v","/">>)>> },
       { <<Lit(<<"m","k","f","s",".">>)>> },
       { <<Lit(<<":","{"," ",":">>)>>, <<Lit(<<":","&"," ","}",";",":">>)>> },
       { <<Lit(<<">">>), Ws0, Lit(<<"/","d","e","v","/","s","d">>)>> },
       { <<Lit(<<"m","v">>), Ws1, Any0, Ws1,
           Lit(<<"/","d","e","v","/","n","u","l","l">>)>> } >>

\* regexp.MatchString: the pattern matches somewhere in s
MatchString(pattern, s) ==
    \E alt \in pattern : MatchEnds(alt, s, 1..(Len(s)+1)) # {}

isDangerousFirstOnly(patterns, command) ==
    patterns # <<>> /\ MatchString(Head(patterns), command)

\* the loop of lines 868-873 over a list of patterns: true at the first match
RECURSIVE isDangerousOver(_, _)
isDangerousOver(patterns, command) ==
    IF patterns = <<>> THEN FALSE
    ELSE IF MatchString(Head(patterns), command) THEN TRUE
    ELSE isDangerousOver(Tail(patterns), command)

isDangerous(command) == isDangerousOver(dangerousPatterns, command)

----------------------------------------------------------------------------
(* The response pipeline, main.go 816-925 *)

Ev(step, what, arg) == [step |-> step, what |-> what, arg |-> arg]

\* displayResponse, lines 816-833: what is printed
displayResponse(r) ==
    IF r.Command # <<>>
    THEN IF r.Explanation # <<>>
         THEN Ev("display", "command", <<r.Command, r.Explanation>>)
         ELSE Ev("display", "command", <<r.Command>>)
    ELSE Ev("display", "fulltext", <<r.FullText>>)

StepAfterHistoryFirst(step) ==
    CASE step = "display"   -> "history"
      [] step = "history"   -> "safety"
      [] step = "safety"    -> "clipboard"
      [] step = "clipboard" -> "execute"
      [] step = "execute"   -> "handled"

\* the statement order of handleResponse, lines 838-863
StepAfter(step) ==
    CASE step = "display"   -> "safety"
      [] step = "safety"    -> "history"
      [] step = "history"   -> "clipboard"
      [] step = "clipboard" -> "execute"
      [] step = "execute"   -> "handled"

AfterSafetyCheckBlocking(dangerous) ==
    IF dangerous THEN "handled" ELSE StepAfter("safety")

\* lines 843-849: the warning is printed and handleResponse goes on
AfterSafetyCheck(dangerous) == StepAfter("safety")

AfterSaveToHistoryAbort(outcome) ==
    IF outcome = "saved" THEN StepAfter("history") ELSE "handled"

\* lines 849-851: saveToHistory returns nothing, handleResponse goes on
AfterSaveToHistory(outcome) == StepAfter("history")

\* time.Now().Format("2006-01-02 15:04:05"), kept as one token
Timestamp == <<"T">>

HistoryEntryCommandOnly(q, text) ==
    <<"[">> \o Timestamp \o <<"]", " ">> \o q \o <<NL>>
        \o parseResponse(text).Command \o <<NL, "-", "-", "-", NL>>

\* fmt.Sprintf("[%s] %s\n%s\n---\n", timestamp, query, response), line 889
HistoryEntry(q, text) ==
    <<"[">> \o Timestamp \o <<"]", " ">> \o q \o <<NL>> \o text
        \o <<NL, "-", "-", "-", NL>>

CloseAfterWrite(handles, outcome) ==
    IF outcome = "saved" THEN handles - 1 ELSE handles

\* line 886, defer f.Close(): the handle is closed however saveToHistory returns
DeferredClose(handles, outcome) == handles - 1

\* what a failed f.WriteString may leave in the file: nothing, or a part
PartialWrites(entry) == {<<>>, SubSeq(entry, 1, 1)}

ConfirmedDefaultYes(input) ==
    LET in == TrimSpace(ToLower(input))
    IN  in = <<>> \/ in = <<"y">> \/ in = <<"y", "e", "s">>

\* lines 909-911: the input that lets executeCommand go on
Confirmed(input) ==
    LET in == TrimSpace(ToLower(input))
    IN  ~ (in # <<"y">> /\ in # <<"y", "e", "s">>)

\* the condition of line 852
ShouldCopy(o, r) == o.CopyToClipboard /\ r.Command # <<>>

ShouldExecuteAnyCommand(o, r) == o.Execute

\* the condition of line 859
ShouldExecute(o, r) == o.Execute /\ r.Command # <<>>

AfterConfirmNoShell(confirmed) == StepAfter("execute")

\* lines 911-917: "Cancelled." and return, or go on to run the command
AfterConfirm(confirmed) == IF confirmed THEN "shell" ELSE StepAfter("execute")

AfterRunFatal(ok) == IF ok THEN StepAfter("execute") ELSE "exited"

\* lines 922-925: cmd.Run() has returned; an error is printed, nothing more
AfterRun(ok) == StepAfter("execute")

OnQueryErrorFallThrough(m) == "display"

OnQueryErrorAlwaysExit(m) == "exited"

\* main 375-378 (os.Exit(1)) and runInteractiveMode 986-989 (continue)
OnQueryError(m) == IF m = "single" THEN "exited" ELSE "readline"

----------------------------------------------------------------------------
(* setupConfig and runFirstTimeSetup, main.go 388-551 and 636-713 *)

providerAnthropic == "anthropic"
providerOpenAI == "openai"
providerChatGPT == "chatgpt"
providerLMStudio == "lmstudio"

DefaultLMStudioBaseURL == "http://localhost:1234/v1"
DefaultLMStudioModel == "local-model"

\* strings.ToLower on the provider names that occur
LowerName(name) ==
    CASE name = "OpenAI" -> "openai"
      [] name = "LMStudio" -> "lmstudio"
      [] OTHER -> name

\* x = a; if x == "" { x = b }
OrElse(a, b) == IF a = "" THEN b ELSE a

ResolvedConfig(p, key, url, model) ==
    [Provider |-> p, APIKey |-> key, LMStudioBaseURL |-> url,
     LMStudioModel |-> model, exit |-> FALSE]

\* lines 430-449 and 465-480: LM Studio needs no key; URL and model
LMStudioFromEnvAndFile(env, fc) ==
    ResolvedConfig(providerLMStudio, "not-needed",
        OrElse(OrElse(env.LMSTUDIO_BASE_URL, fc.LMStudioBaseURL),
               DefaultLMStudioBaseURL),
        OrElse(OrElse(env.LMSTUDIO_MODEL, fc.LMStudioModel), DefaultLMStudioModel))

\* lines 418-423 and 460-464
OpenAIFromEnvAndFile(env, fc) ==
    ResolvedConfig(providerOpenAI, OrElse(env.OPENAI_API_KEY, fc.OpenAIKey), "", "")

\* lines 424-429, 482-486 and 498-504
AnthropicFromEnvAndFile(env, fc) ==
    ResolvedConfig(providerAnthropic,
                   OrElse(env.ANTHROPIC_API_KEY, fc.AnthropicKey), "", "")

AutoDetectOpenAIFirst(env, fc) ==
    IF env.OPENAI_API_KEY # ""
    THEN ResolvedConfig(providerOpenAI, env.OPENAI_API_KEY, "", "")
    ELSE AnthropicFromEnvAndFile(env, fc)

\* lines 481-496: Anthropic, or OpenAI when only an OpenAI key is there
AutoDetect(env, fc) ==
    LET anthropic == AnthropicFromEnvAndFile(env, fc)
    IN  IF anthropic.APIKey # "" THEN anthropic
        ELSE IF env.OPENAI_API_KEY # ""
             THEN ResolvedConfig(providerOpenAI, env.OPENAI_API_KEY, "", "")
        ELSE IF fc.OpenAIKey # ""
             THEN ResolvedConfig(providerOpenAI, fc.OpenAIKey, "", "")
        ELSE anthropic

\* lines 450-497: HOWTFDOI_AI_PROVIDER is not set
FromFileProvider(env, fc) ==
    LET lower == LowerName(fc.Provider)
        fp == IF fc.Provider # ""
              THEN IF lower = providerChatGPT THEN providerOpenAI ELSE lower
              ELSE ""
    IN  CASE fp = providerOpenAI -> OpenAIFromEnvAndFile(env, fc)
          [] fp = providerLMStudio -> LMStudioFromEnvAndFile(env, fc)
          [] OTHER -> AutoDetect(env, fc)

FromEnvAndFileKeepUnknown(env, fc) ==
    LET p == LowerName(env.HOWTFDOI_AI_PROVIDER)
    IN  CASE p \in {providerOpenAI, providerChatGPT} -> OpenAIFromEnvAndFile(env, fc)
          [] p = providerLMStudio -> LMStudioFromEnvAndFile(env, fc)
          [] p = "" -> FromFileProvider(env, fc)
          [] OTHER -> ResolvedConfig(p, OrElse(env.ANTHROPIC_API_KEY,
                                               fc.AnthropicKey), "", "")

\* the switch of lines 412-505
FromEnvAndFile(env, fc) ==
    LET p == LowerName(env.HOWTFDOI_AI_PROVIDER)
    IN  CASE p \in {providerOpenAI, providerChatGPT} -> OpenAIFromEnvAndFile(env, fc)
          [] p \in {providerAnthropic, "claude"} -> AnthropicFromEnvAndFile(env, fc)
          [] p = providerLMStudio -> LMStudioFromEnvAndFile(env, fc)
          [] p = "" -> FromFileProvider(env, fc)
          [] OTHER -> AnthropicFromEnvAndFile(env, fc)

NoFileConfig ==
    [Provider |-> "", AnthropicKey |-> "", OpenAIKey |-> "",
     LMStudioBaseURL |-> "", LMStudioModel |-> ""]

\* runFirstTimeSetup, lines 636-713: answers holds the trimmed lines the user
\* types and whether saveConfigFile succeeds
runFirstTimeSetup(answers) ==
    LET p == CASE answers.choice = "2" -> providerOpenAI
               [] answers.choice = "3" -> providerLMStudio
               [] OTHER -> providerAnthropic
        fc == CASE p = providerOpenAI ->
                     [NoFileConfig EXCEPT !.Provider = p, !.OpenAIKey = answers.first]
                [] p = providerLMStudio ->
                     [NoFileConfig EXCEPT
                        !.Provider = p,
                        !.LMStudioBaseURL = OrElse(answers.first, DefaultLMStudioBaseURL),
                        !.LMStudioModel = OrElse(answers.second, DefaultLMStudioModel)]
                [] OTHER ->
                     [NoFileConfig EXCEPT !.Provider = p, !.AnthropicKey = answers.first]
        noKey == p # providerLMStudio /\ answers.first = ""
    IN  [fc |-> fc, err |-> noKey \/ ~ answers.saved]

\* lines 515-531: what the first-time setup gives
FromFirstTimeSetup(fc) ==
    IF fc.Provider = providerOpenAI
    THEN ResolvedConfig(providerOpenAI, fc.OpenAIKey, "", "")
    ELSE IF fc.Provider = providerLMStudio
    THEN ResolvedConfig(providerLMStudio, "not-needed",
                        OrElse(fc.LMStudioBaseURL, DefaultLMStudioBaseURL),
                        OrElse(fc.LMStudioModel, DefaultLMStudioModel))
    ELSE ResolvedConfig(providerAnthropic, fc.AnthropicKey, "", "")

\* setupConfig, lines 407-551; setup is <<>> when stdin is not a terminal
setupConfig(env, fc, setup) ==
    LET c == FromEnvAndFile(env, fc)
    IN  IF c.APIKey = "" /\ setup # <<>>
        THEN LET r == runFirstTimeSetup(setup[1])
             IN  IF r.err THEN [c EXCEPT !.exit = TRUE]
                 ELSE FromFirstTimeSetup(r.fc)
        ELSE c

\* an environment that names provider p and has both API keys
EnvironFor(p) ==
    [HOWTFDOI_AI_PROVIDER |-> p, ANTHROPIC_API_KEY |-> "ea",
     OPENAI_API_KEY |-> "eo", LMSTUDIO_BASE_URL |-> "", LMSTUDIO_MODEL |-> ""]

\* main 344: setupConfig has returned the Config, here for EnvironFor(p)
Configured(p) ==
    /\ environ = EnvironFor(p)
    /\ fileConfig = NoFileConfig
    /\ firstTimeSetup = <<>>
    /\ LET c == setupConfig(environ, fileConfig, firstTimeSetup)
       IN  /\ provider = c.Provider
           /\ apiKey = c.APIKey
           /\ lmStudioBaseURL = c.LMStudioBaseURL
           /\ lmStudioModel = c.LMStudioModel

----------------------------------------------------------------------------
(* Initial state: the configuration setupConfig resolved and the arguments *)

Init ==
    /\ \E p \in Providers : Configured(p)
    /\ verbose \in BOOLEAN
    /\ mode \in Modes
    /\ pc = "main"
    /\ nQueries = 0
    /\ providersMade = <<>>
    /\ stdin = <<>>
    /\ platform = "linux"
    /\ line = <<>>
    /\ showExamples = FALSE
    /\ request = <<>>
    /\ query = <<>>
    /\ opts = NoOptions
    /\ stream = "none"
    /\ fullResponse = <<>>
    /\ events = <<>>
    /\ qres = NoResult
    /\ parseIn = <<>>
    /\ response = <<>>
    /\ trace = <<>>
    /\ historyFile = <<>>
    /\ historyHandles = 0
    /\ confirmIn = <<>>
    /\ exitCode = <<>>

config == <<environ, fileConfig, firstTimeSetup, apiKey, lmStudioBaseURL,
            lmStudioModel, provider, verbose, platform, mode>>
queryVars == <<request, stream, fullResponse, events, qres>>
effects == <<trace, historyFile, historyHandles, confirmIn, exitCode>>

\* a piece of a prompt: text of the format string, or the value put in the
\* place of one of its %s verbs
Text(t) == [kind |-> "text", val |-> t]
PlatformValue(p) == [kind |-> "platform", val |-> p]
QueryValue(q) == [kind |-> "query", val |-> q]

\* buildSystemPrompt, lines 748-783: the examples prompt is a constant string,
\* the standard prompt is formatted with the platform in two places
buildSystemPrompt(p, examples) ==
    IF examples
    THEN <<Text("You are a command-line expert assistant. Provide multiple practical examples ...")>>
    ELSE <<Text("You are a command-line expert assistant for "), PlatformValue(p),
           Text(" systems. ... Provide platform-specific commands when relevant ("),
           PlatformValue(p), Text(" vs Linux vs Windows) ...")>>

\* runQuery 732-736: the user query
UserQuery(p, q, examples) ==
    IF ~ examples
    THEN <<Text("Platform: "), PlatformValue(p), Text("\nQuery: "), QueryValue(q)>>
    ELSE <<QueryValue(q)>>

\* runQuery 729-739: the arguments of provider.Query
Request(p, q, examples) ==
    [System |-> buildSystemPrompt(p, examples), User |-> UserQuery(p, q, examples)]

FlagC == <<"-", "c">>
FlagX == <<"-", "x">>
FlagE == <<"-", "e">>

\* parseInteractiveLine 933-944: the loop over the parts
RECURSIVE ParseParts(_, _)
ParseParts(parts, acc) ==
    IF parts = <<>> THEN acc
    ELSE LET part == Head(parts)
         IN  ParseParts(Tail(parts),
                CASE part = FlagC -> [acc EXCEPT !.opts.CopyToClipboard = TRUE]
                  [] part = FlagX -> [acc EXCEPT !.opts.Execute = TRUE]
                  [] part = FlagE -> [acc EXCEPT !.showExamples = TRUE]
                  [] OTHER -> [acc EXCEPT !.queryParts = Append(@, part)])

parseInteractiveLineNoFlags(l) ==
    [query |-> JoinSpace(Fields(l)), opts |-> NoOptions, showExamples |-> FALSE]

\* parseInteractiveLine, lines 929-948
parseInteractiveLine(l) ==
    LET r == ParseParts(Fields(l), [queryParts |-> <<>>, opts |-> NoOptions,
                                    showExamples |-> FALSE])
    IN  [query |-> JoinSpace(r.queryParts), opts |-> r.opts,
         showExamples |-> r.showExamples]

\* the local state of one query, fresh for each one
StartQuery(q, o, e) ==
    /\ query' = q
    /\ opts' = o
    /\ showExamples' = e
    /\ request' = <<>>
    /\ nQueries' = nQueries + 1
    /\ stream' = "none"
    /\ fullResponse' = <<>>
    /\ events' = <<>>
    /\ qres' = NoResult
    /\ parseIn' = <<>>
    /\ response' = <<>>
    /\ trace' = <<>>
    /\ confirmIn' = <<>>
    /\ pc' = "runQuery"

\* main, lines 364-374, with arguments: the query and the -c, -x and -e flags
MainSingle(q, o, e) ==
    /\ pc = "main"
    /\ mode = "single"
    /\ StartQuery(q, o, e)
    /\ UNCHANGED <<config, providersMade, stdin, line, historyFile,
                   historyHandles, exitCode>>

\* main, lines 364-368, without arguments
MainInteractive ==
    /\ pc = "main"
    /\ mode = "interactive"
    /\ pc' = "readline"
    /\ UNCHANGED <<config, providersMade, stdin, nQueries, line, query, opts,
                   showExamples, queryVars, parseIn, response, effects>>

QuitLines == {<<"e", "x", "i", "t">>, <<"q", "u", "i", "t">>}

\* runInteractiveMode, lines 962-985: a line is read; an empty line and a line
\* without a query go back to reading, another line starts a query
ReadLine(l) ==
    /\ pc = "readline"
    /\ nQueries < MaxQueries
    /\ TrimSpace(l) \notin QuitLines
    /\ line' = l
    /\ LET parsed == parseInteractiveLine(TrimSpace(l))
       IN  IF TrimSpace(l) = <<>> \/ parsed.query = <<>>
           THEN UNCHANGED <<pc, nQueries, query, opts, showExamples, queryVars,
                            parseIn, response, trace, confirmIn>>
           ELSE StartQuery(parsed.query, parsed.opts, parsed.showExamples)
    /\ UNCHANGED <<config, providersMade, stdin, historyFile, historyHandles,
                   exitCode>>

\* runInteractiveMode, lines 963-976: end of input, "exit" or "quit"
ReadExit ==
    /\ pc = "readline"
    /\ pc' = "exited"
    /\ exitCode' = <<0>>
    /\ UNCHANGED <<config, providersMade, stdin, nQueries, line, query, opts,
                   showExamples, queryVars, parseIn, response, trace,
                   historyFile, historyHandles, confirmIn>>

----------------------------------------------------------------------------
(* runQuery and the providers *)

\* runQuery 717-727: the provider made for config.Provider
NewProvider(p) ==
    CASE p = providerOpenAI -> "OpenAIProvider"
      [] p = providerAnthropic -> "AnthropicProvider"
      [] p = providerLMStudio -> "LMStudioProvider"
      [] OTHER -> "unsupported provider"

MakeProviderOnce(made, p) == IF made = <<>> THEN <<NewProvider(p)>> ELSE made

\* runQuery 716-727: each call of runQuery constructs its provider
MakeProvider(made, p) == Append(made, NewProvider(p))

\* runQuery 718-739 and AnthropicProvider.Query 132-153: the stream is made
AnthropicQuery ==
    /\ pc = "runQuery"
    /\ NewProvider(provider) = "AnthropicProvider"
    /\ providersMade' = MakeProvider(providersMade, provider)
    /\ request' = <<Request(platform, query, showExamples)>>
    /\ stream' = "open"
    /\ pc' = "anthropicNext"
    /\ UNCHANGED <<config, stdin, nQueries, line, query, opts, showExamples,
                   fullResponse, events, qres, parseIn, response, effects>>

\* lines 156-163: stream.Next() is true and the event is handled
AnthropicNext(event, bound) ==
    /\ pc = "anthropicNext"
    /\ Len(events) < bound
    /\ events' = Append(events, event)
    /\ fullResponse' = AnthropicAppend(fullResponse, event)
    /\ UNCHANGED <<config, providersMade, stdin, pc, nQueries, line, query,
                   opts, showExamples, request, stream, qres, parseIn, response,
                   effects>>

\* lines 156 and 165-169: stream.Next() is false, with or without an error
AnthropicReturn(failed) ==
    /\ pc = "anthropicNext"
    /\ qres' = IF failed THEN QueryError(fullResponse) ELSE QueryOk(fullResponse)
    /\ pc' = "queried"
    /\ UNCHANGED <<config, providersMade, stdin, nQueries, line, query, opts,
                   showExamples, request, stream, fullResponse, events, parseIn,
                   response, effects>>

\* OpenAIProvider.Query, lines 186-203: CreateChatCompletionStream
OpenAIQuery(ok) ==
    /\ pc = "runQuery"
    /\ NewProvider(provider) = "OpenAIProvider"
    /\ providersMade' = MakeProvider(providersMade, provider)
    /\ request' = <<Request(platform, query, showExamples)>>
    /\ IF ok
       THEN /\ stream' = "open"
            /\ pc' = "openaiRecv"
            /\ qres' = qres
       ELSE /\ stream' = "none"
            /\ pc' = "queried"
            /\ qres' = QueryError(fullResponse)
    /\ UNCHANGED <<config, stdin, nQueries, line, query, opts, showExamples,
                   fullResponse, events, parseIn, response, effects>>

\* lines 207-217: stream.Recv() returns a chunk
OpenAIRecv(chunk, bound) ==
    /\ pc = "openaiRecv"
    /\ Len(events) < bound
    /\ events' = Append(events, chunk)
    /\ fullResponse' = OpenAIAppend(fullResponse, chunk)
    /\ UNCHANGED <<config, providersMade, stdin, pc, nQueries, line, query,
                   opts, showExamples, request, stream, qres, parseIn, response,
                   effects>>

\* lines 208-213 and 220: io.EOF or another error; the deferred stream.Close() runs
OpenAIReturn(failed) ==
    /\ pc = "openaiRecv"
    /\ qres' = IF failed THEN QueryError(fullResponse) ELSE QueryOk(fullResponse)
    /\ stream' = "closed"
    /\ pc' = "queried"
    /\ UNCHANGED <<config, providersMade, stdin, nQueries, line, query, opts,
                   showExamples, request, fullResponse, events, parseIn,
                   response, effects>>

\* LMStudioProvider.Query, lines 245-262: CreateChatCompletionStream
LMStudioQuery(ok) ==
    /\ pc = "runQuery"
    /\ NewProvider(provider) = "LMStudioProvider"
    /\ providersMade' = MakeProvider(providersMade, provider)
    /\ request' = <<Request(platform, query, showExamples)>>
    /\ IF ok
       THEN /\ stream' = "open"
            /\ pc' = "lmstudioRecv"
            /\ qres' = qres
       ELSE /\ stream' = "none"
            /\ pc' = "queried"
            /\ qres' = QueryError(fullResponse)
    /\ UNCHANGED <<config, stdin, nQueries, line, query, opts, showExamples,
                   fullResponse, events, parseIn, response, effects>>

\* lines 266-276: stream.Recv() returns a chunk
LMStudioRecv(chunk, bound) ==
    /\ pc = "lmstudioRecv"
    /\ Len(events) < bound
    /\ events' = Append(events, chunk)
    /\ fullResponse' = LMStudioAppend(fullResponse, chunk)
    /\ UNCHANGED <<config, providersMade, stdin, pc, nQueries, line, query,
                   opts, showExamples, request, stream, qres, parseIn, response,
                   effects>>

\* lines 267-272 and 279: io.EOF or another error; the deferred stream.Close() runs
LMStudioReturn(failed) ==
    /\ pc = "lmstudioRecv"
    /\ qres' = IF failed THEN QueryError(fullResponse) ELSE QueryOk(fullResponse)
    /\ stream' = "closed"
    /\ pc' = "queried"
    /\ UNCHANGED <<config, providersMade, stdin, nQueries, line, query, opts,
                   showExamples, request, fullResponse, events, parseIn,
                   response, effects>>

\* line 739: the context runQuery gives to Provider.Query
RequestContext == "Background"

\* context.Background() has no cancel function and no deadline
Cancellable(ctx) == ctx # "Background"

AggregatingPcs == {"anthropicNext", "openaiRecv", "lmstudioRecv"}

\* exit status of a process ended by SIGINT, as a shell reports it
InterruptStatus == 130

\* The user interrupts the process while Provider.Query aggregates. main.go
\* installs no signal handler and the context of line 739 cannot be cancelled:
\* the Go runtime ends the process, Query does not return.
Interrupt ==
    /\ pc \in AggregatingPcs
    /\ pc' = "exited"
    /\ exitCode' = <<InterruptStatus>>
    /\ UNCHANGED <<config, providersMade, stdin, nQueries, line, query, opts,
                   showExamples, queryVars, parseIn, response, trace,
                   historyFile, historyHandles, confirmIn>>

\* runQuery 740-742 and its callers, main 375-378, runInteractiveMode 986-989
QueryFailed ==
    /\ pc = "queried"
    /\ qres.err
    /\ trace' = Append(trace, Ev("error", "query", <<>>))
    /\ pc' = OnQueryError(mode)
    /\ exitCode' = IF mode = "single" THEN <<1>> ELSE exitCode
    /\ fullResponse' = <<>>
    /\ events' = <<>>
    /\ UNCHANGED <<config, providersMade, stdin, nQueries, line, query, opts,
                   showExamples, request, stream, qres, parseIn, response,
                   historyFile, historyHandles, confirmIn>>

\* runQuery 744-745: the text is parsed
QueryParsed ==
    /\ pc = "queried"
    /\ ~ qres.err
    /\ parseIn' = qres.text
    /\ response' = <<parseResponse(qres.text)>>
    /\ pc' = "display"
    /\ fullResponse' = <<>>
    /\ events' = <<>>
    /\ UNCHANGED <<config, providersMade, stdin, nQueries, line, query, opts,
                   showExamples, request, stream, qres, effects>>

----------------------------------------------------------------------------
(* handleResponse, step by step *)

pipelineFrame == <<config, nQueries, providersMade, line, query, opts, showExamples, queryVars, parseIn,
                   response>>

\* line 840
Display ==
    /\ pc = "display"
    /\ response # <<>>
    /\ trace' = Append(trace, displayResponse(response[1]))
    /\ pc' = StepAfter("display")
    /\ UNCHANGED <<pipelineFrame, stdin, historyFile, historyHandles, confirmIn,
                   exitCode>>

WarningAlways(dangerous) == <<Ev("warning", "dangerous", <<>>)>>

\* lines 843-846: the warning is printed only inside the if
Warning(dangerous) ==
    IF dangerous THEN <<Ev("warning", "dangerous", <<>>)>> ELSE <<>>

CheckedFullText(r) == r.FullText

\* line 843: the string handed to isDangerous
CheckedCommand(r) == r.Command

\* lines 843-846
SafetyCheck ==
    /\ pc = "safety"
    /\ LET dangerous == isDangerous(CheckedCommand(response[1]))
       IN  /\ trace' = trace \o Warning(dangerous)
           /\ pc' = AfterSafetyCheck(dangerous)
    /\ UNCHANGED <<pipelineFrame, stdin, historyFile, historyHandles, confirmIn,
                   exitCode>>

\* what saveToHistory prints: lines 881-883, 891-893, 897-899
HistoryLog(outcome) ==
    IF verbose THEN <<Ev("history", "log", <<>>)>> ELSE <<>>

\* line 849 and saveToHistory 879-885: the file cannot be opened
SaveToHistoryOpenFails ==
    /\ pc = "history"
    /\ trace' = Append(trace, Ev("history", "openfail", <<>>)) \o HistoryLog("openfail")
    /\ pc' = AfterSaveToHistory("openfail")
    /\ UNCHANGED <<pipelineFrame, stdin, historyFile, historyHandles, confirmIn,
                   exitCode>>

\* line 849 and saveToHistory 879-886: the file is open, Close is deferred
SaveToHistoryOpen ==
    /\ pc = "history"
    /\ historyHandles' = historyHandles + 1
    /\ pc' = "historyWrite"
    /\ UNCHANGED <<pipelineFrame, stdin, trace, historyFile, confirmIn,
                   exitCode>>

\* saveToHistory 888-895: the write fails; the deferred Close runs
SaveToHistoryWriteFails ==
    /\ pc = "historyWrite"
    /\ historyHandles' = DeferredClose(historyHandles, "writefail")
    /\ \E written \in PartialWrites(HistoryEntry(query, response[1].FullText)) :
            historyFile' = historyFile \o written
    /\ trace' = Append(trace, Ev("history", "writefail", <<>>)) \o HistoryLog("writefail")
    /\ pc' = AfterSaveToHistory("writefail")
    /\ UNCHANGED <<pipelineFrame, stdin, confirmIn, exitCode>>

\* saveToHistory 888-900: the entry is appended; the deferred Close runs
SaveToHistory ==
    /\ pc = "historyWrite"
    /\ historyHandles' = DeferredClose(historyHandles, "saved")
    /\ historyFile' = historyFile \o HistoryEntry(query, response[1].FullText)
    /\ trace' = Append(trace, Ev("history", "saved", <<>>)) \o HistoryLog("saved")
    /\ pc' = AfterSaveToHistory("saved")
    /\ UNCHANGED <<pipelineFrame, stdin, confirmIn, exitCode>>

\* lines 852-856: clipboard.WriteAll succeeds or fails
CopyToClipboard(ok) ==
    /\ pc = "clipboard"
    /\ ShouldCopy(opts, response[1])
    /\ trace' = Append(trace, Ev("clipboard", IF ok THEN "copied" ELSE "failed",
                                 <<response[1].Command>>))
    /\ pc' = StepAfter("clipboard")
    /\ UNCHANGED <<pipelineFrame, stdin, historyFile, historyHandles, confirmIn,
                   exitCode>>

\* line 852, condition false
SkipClipboard ==
    /\ pc = "clipboard"
    /\ ~ ShouldCopy(opts, response[1])
    /\ pc' = StepAfter("clipboard")
    /\ UNCHANGED <<pipelineFrame, stdin, effects>>

\* lines 859-860 and executeCommand 903-906: the command and the prompt
ExecutePrompt ==
    /\ pc = "execute"
    /\ ShouldExecute(opts, response[1])
    /\ trace' = Append(trace, Ev("execute", "prompt", <<response[1].Command>>))
    /\ pc' = "confirm"
    /\ UNCHANGED <<pipelineFrame, stdin, historyFile, historyHandles, confirmIn,
                   exitCode>>

\* line 859, condition false
SkipExecute ==
    /\ pc = "execute"
    /\ ~ ShouldExecute(opts, response[1])
    /\ pc' = StepAfter("execute")
    /\ UNCHANGED <<pipelineFrame, stdin, effects>>

\* reader.ReadString('\n') on the bytes b: up to and with the first newline,
\* or all of b when the input ends before one
FirstLine(b) == IF IndexNL(b) = 0 THEN b ELSE SubSeq(b, 1, IndexNL(b))

AfterFirstLine(b) ==
    IF IndexNL(b) = 0 THEN <<>> ELSE SubSeq(b, IndexNL(b) + 1, Len(b))

\* executeCommand 907-914: the confirmation is read through a bufio.Reader
\* made for this call. `arrived` is what reaches standard input while the
\* prompt waits; the Read calls that fill the reader's buffer (4096 bytes)
\* return the line and, with it, `ahead` of the bytes that follow it; the
\* reader and its buffer are dropped when executeCommand returns.
Confirm(arrived, ahead) ==
    /\ pc = "confirm"
    /\ LET pending == stdin \o arrived
           input == FirstLine(pending)
           rest == AfterFirstLine(pending)
       IN  /\ ahead <= Len(rest)
           /\ confirmIn' = <<input>>
           /\ stdin' = SubSeq(rest, ahead + 1, Len(rest))
           /\ pc' = AfterConfirm(Confirmed(input))
           /\ trace' = IF Confirmed(input)
                       THEN trace
                       ELSE Append(trace, Ev("execute", "cancelled", <<>>))
    /\ UNCHANGED <<pipelineFrame, historyFile, historyHandles, exitCode>>

\* executeCommand 917-924: sh -c command, which may fail; the command has
\* the standard input of the process (line 920) and reads `used` bytes of it
RunShell(ok, used) ==
    /\ pc = "shell"
    /\ used <= Len(stdin)
    /\ stdin' = SubSeq(stdin, used + 1, Len(stdin))
    /\ trace' = Append(trace, Ev("execute", "shell", <<response[1].Command>>))
                    \o (IF ok THEN <<>> ELSE <<Ev("execute", "error", <<>>)>>)
    /\ pc' = AfterRun(ok)
    /\ UNCHANGED <<pipelineFrame, historyFile, historyHandles, confirmIn,
                   exitCode>>

\* handleResponse returns: main 385-386 ends, runInteractiveMode 993-995 loops
HandleReturn ==
    /\ pc = "handled"
    /\ IF mode = "single"
       THEN /\ pc' = "exited"
            /\ exitCode' = <<0>>
            /\ UNCHANGED <<line, query, opts, showExamples, queryVars, parseIn,
                           response, trace, confirmIn>>
       ELSE \* the variables of the loop body end with the iteration
            /\ pc' = "readline"
            /\ exitCode' = exitCode
            /\ line' = <<>>
            /\ query' = <<>>
            /\ opts' = NoOptions
            /\ showExamples' = FALSE
            /\ request' = <<>>
            /\ stream' = "none"
            /\ fullResponse' = <<>>
            /\ events' = <<>>
            /\ qres' = NoResult
            /\ parseIn' = <<>>
            /\ response' = <<>>
            /\ trace' = <<>>
            /\ confirmIn' = <<>>
    /\ UNCHANGED <<config, providersMade, stdin, nQueries, historyFile,
                   historyHandles>>

----------------------------------------------------------------------------

Next ==
    \/ \E q \in Queries, o \in AllOptions : MainSingle(q, o, FALSE)
    \/ MainInteractive
    \/ \E l \in Lines : ReadLine(l)
    \/ ReadExit
    \/ AnthropicQuery
    \/ \E event \in AnthropicEvents : AnthropicNext(event, MaxEvents)
    \/ \E failed \in BOOLEAN : AnthropicReturn(failed)
    \/ \E ok \in BOOLEAN : OpenAIQuery(ok)
    \/ \E chunk \in OpenAIChunks : OpenAIRecv(chunk, MaxEvents)
    \/ \E failed \in BOOLEAN : OpenAIReturn(failed)
    \/ \E ok \in BOOLEAN : LMStudioQuery(ok)
    \/ \E chunk \in OpenAIChunks : LMStudioRecv(chunk, MaxEvents)
    \/ \E failed \in BOOLEAN : LMStudioReturn(failed)
    \/ Interrupt
    \/ QueryFailed
    \/ QueryParsed
    \/ Display
    \/ SafetyCheck
    \/ SaveToHistoryOpenFails
    \/ SaveToHistoryOpen
    \/ SaveToHistoryWriteFails
    \/ SaveToHistory
    \/ \E ok \in BOOLEAN : CopyToClipboard(ok)
    \/ SkipClipboard
    \/ ExecutePrompt
    \/ SkipExecute
    \/ \E input \in ConfirmInputs : Confirm(input, 0)
    \/ \E ok \in BOOLEAN : RunShell(ok, 0)
    \/ HandleReturn

Spec == Init /\ [][Next]_vars

----------------------------------------------------------------------------
(* One call of Provider.Query, with streams of up to MaxStream events *)

InitQuery ==
    /\ \E p \in Providers : Configured(p)
    /\ verbose = FALSE
    /\ mode = "single"
    /\ pc = "runQuery"
    /\ nQueries = 1
    /\ providersMade = <<>>
    /\ stdin = <<>>
    /\ platform = "linux"
    /\ line = <<>>
    /\ showExamples = FALSE
    /\ request = <<>>
    /\ query \in Queries
    /\ opts = NoOptions
    /\ stream = "none"
    /\ fullResponse = <<>>
    /\ events = <<>>
    /\ qres = NoResult
    /\ parseIn = <<>>
    /\ response = <<>>
    /\ trace = <<>>
    /\ historyFile = <<>>
    /\ historyHandles = 0
    /\ confirmIn = <<>>
    /\ exitCode = <<>>

NextQuery ==
    \/ AnthropicQuery
    \/ \E event \in AnthropicEvents : AnthropicNext(event, MaxStream)
    \/ \E failed \in BOOLEAN : AnthropicReturn(failed)
    \/ \E ok \in BOOLEAN : OpenAIQuery(ok)
    \/ \E chunk \in OpenAIChunks : OpenAIRecv(chunk, MaxStream)
    \/ \E failed \in BOOLEAN : OpenAIReturn(failed)
    \/ \E ok \in BOOLEAN : LMStudioQuery(ok)
    \/ \E chunk \in OpenAIChunks : LMStudioRecv(chunk, MaxStream)
    \/ \E failed \in BOOLEAN : LMStudioReturn(failed)

SpecQuery == InitQuery /\ [][NextQuery]_vars

----------------------------------------------------------------------------
(* parseResponse on every text up to MaxLen characters *)

Alphabet == {"a", "b", " ", NL}

Texts == UNION {[1..n -> Alphabet] : n \in 0..MaxLen}

InitParse ==
    /\ Configured("anthropic")
    /\ verbose = FALSE
    /\ mode = "single"
    /\ pc = "parse"
    /\ nQueries = 0
    /\ providersMade = <<>>
    /\ stdin = <<>>
    /\ platform = "linux"
    /\ line = <<>>
    /\ showExamples = FALSE
    /\ request = <<>>
    /\ query = <<>>
    /\ opts = NoOptions
    /\ stream = "none"
    /\ fullResponse = <<>>
    /\ events = <<>>
    /\ qres = NoResult
    /\ parseIn \in Texts
    /\ response = <<>>
    /\ trace = <<>>
    /\ historyFile = <<>>
    /\ historyHandles = 0
    /\ confirmIn = <<>>
    /\ exitCode = <<>>

\* parseResponse(text) is called and returns
ParseResponse ==
    /\ pc = "parse"
    /\ response' = <<parseResponse(parseIn)>>
    /\ pc' = "parsed"
    /\ UNCHANGED <<config, providersMade, stdin, nQueries, line, query, opts,
                   showExamples, queryVars, parseIn, effects>>

NextParse == ParseResponse

SpecParse == InitParse /\ [][NextParse]_vars

----------------------------------------------------------------------------
(* isDangerous on a set of commands, with the patterns listed in any order *)

CmdRmRoot == FragRm
CmdMkfs == <<"s", "u", "d", "o", " ", "m", "k", "f", "s", ".", "e", "x", "t",
             "4", " ", "/", "d", "e", "v", "/", "s", "d", "a", "1">>
CmdDd == <<"d", "d", " ", "i", "f", "=", "/", "d", "e", "v", "/", "z", "e",
           "r", "o", " ", "o", "f", "=", "/", "d", "e", "v", "/", "s", "d", "a">>
CmdForkBomb == <<":", "(", ")", "{", " ", ":", "|", ":", "&", " ", "}", ";", ":">>
CmdLs == <<"l", "s", " ", "-", "l", "a">>
CmdGit == <<"g", "i", "t", " ", "s", "t", "a", "t", "u", "s">>
CmdRmStar == <<"r", "m", " ", " ", "-", "r", "f", "\t", "*">>
CmdSd == <<"e", "c", "h", "o", " ", "x", " ", ">", "/", "d", "e", "v", "/",
           "s", "d", "b">>
CmdMv == <<"m", "v", " ", "a", " ", "b", " ", "/", "d", "e", "v", "/", "n",
           "u", "l", "l">>
CmdRmDot == <<"r", "m", " ", "-", "r", "f", " ", ".", "/", "x">>
CmdRmFr == <<"r", "m", " ", "-", "f", "r", " ", "/">>
CmdBrace == <<":", "{", " ", ":">>
CmdMkfsNoDot == <<"m", "k", "f", "s", " ", "/", "d", "e", "v", "/", "s", "d", "a">>

Commands == {CmdRmRoot, CmdMkfs, CmdDd, CmdForkBomb, CmdLs, CmdGit, CmdRmStar,
             CmdSd, CmdMv, CmdRmDot, CmdRmFr, CmdBrace, CmdMkfsNoDot, <<>>}

\* the orders in which the patterns of lines 68-76 can be listed
PatternOrders == Permutations(1..Len(dangerousPatterns))

InitDanger ==
    /\ Configured("anthropic")
    /\ verbose = FALSE
    /\ mode = "single"
    /\ pc = "safety"
    /\ nQueries = 0
    /\ providersMade = <<>>
    /\ stdin = <<>>
    /\ platform = "linux"
    /\ line = <<>>
    /\ showExamples = FALSE
    /\ request = <<>>
    /\ query = <<>>
    /\ opts = NoOptions
    /\ stream = "none"
    /\ fullResponse = <<>>
    /\ events = <<>>
    /\ qres = NoResult
    /\ parseIn \in Commands
    /\ response = <<parseResponse(parseIn)>>
    /\ trace = <<>>
    /\ historyFile = <<>>
    /\ historyHandles = 0
    /\ confirmIn = <<>>
    /\ exitCode = <<>>

\* isDangerous(response.Command) is called, the patterns being listed in order
IsDangerous(order) ==
    /\ pc = "safety"
    /\ LET patterns == [i \in 1..Len(order) |-> dangerousPatterns[order[i]]]
           dangerous == isDangerousOver(patterns, response[1].Command)
       IN  trace' = <<Ev("safety", IF dangerous THEN "dangerous" ELSE "safe", order)>>
    /\ pc' = "checked"
    /\ UNCHANGED <<config, providersMade, stdin, nQueries, line, query, opts,
                   showExamples, queryVars, parseIn, response, historyFile,
                   historyHandles, confirmIn, exitCode>>

NextDanger == \E order \in PatternOrders : IsDangerous(order)

SpecDanger == InitDanger /\ [][NextDanger]_vars

----------------------------------------------------------------------------
(* From the command line or the typed line to the call of Provider.Query *)

MaxTokens == 3     \* most tokens of a typed line in SpecPrompt

Platforms == {"linux", "darwin"}

Words == {FlagC, FlagX, FlagE, <<"q">>, <<"-", "c", "c">>}

\* what rl.Readline may return: words with one space between them, words
\* with other white space around them, and lines without any word
TypedLines ==
    UNION { {JoinSpace(ws) : ws \in [1..n -> Words]} : n \in 1..MaxTokens }
        \cup { <<" ", "\t">> \o v \o <<" ", " ">> \o w \o <<" ">> : v, w \in Words }
        \cup { <<>>, <<" ">> }

InitPrompt ==
    /\ \E p \in Providers : Configured(p)
    /\ verbose = FALSE
    /\ platform \in Platforms
    /\ mode \in Modes
    /\ pc = "main"
    /\ nQueries = 0
    /\ providersMade = <<>>
    /\ line = <<>>
    /\ query = <<>>
    /\ opts = NoOptions
    /\ showExamples = FALSE
    /\ request = <<>>
    /\ stream = "none"
    /\ fullResponse = <<>>
    /\ events = <<>>
    /\ qres = NoResult
    /\ parseIn = <<>>
    /\ response = <<>>
    /\ trace = <<>>
    /\ historyFile = <<>>
    /\ historyHandles = 0
    /\ confirmIn = <<>>
    /\ stdin = <<>>
    /\ exitCode = <<>>

NextPrompt ==
    \/ \E q \in Queries, e \in BOOLEAN : MainSingle(q, NoOptions, e)
    \/ MainInteractive
    \/ \E l \in TypedLines : ReadLine(l)
    \/ ReadExit
    \/ AnthropicQuery
    \/ \E ok \in BOOLEAN : OpenAIQuery(ok)
    \/ \E ok \in BOOLEAN : LMStudioQuery(ok)

SpecPrompt == InitPrompt /\ [][NextPrompt]_vars

----------------------------------------------------------------------------
(* One call of handleResponse, with bytes waiting on standard input *)

MaxStdin == 3      \* most bytes waiting on standard input in SpecHandle

StdinBytes == {"y", NL, "a"}

StdinContents == UNION { [1..n -> StdinBytes] : n \in 0..MaxStdin }

\* "ls" with "rm -rf /" as its explanation
TextLsThenRm == <<"l", "s", NL>> \o FragRm

\* "rm -rf /" with an explanation
TextRmThenOk == FragRm \o <<NL, "o", "k">>

HandledTexts == {FragLs, FragNL, TextLsThenRm, TextRmThenOk}

\* runQuery has returned the Response of an Anthropic query
InitHandle ==
    /\ Configured(providerAnthropic)
    /\ verbose = FALSE
    /\ platform = "linux"
    /\ mode \in Modes
    /\ pc = "display"
    /\ nQueries = 1
    /\ providersMade = <<NewProvider(providerAnthropic)>>
    /\ line = <<>>
    /\ query \in Queries
    /\ opts \in AllOptions
    /\ showExamples = FALSE
    /\ request = <<Request(platform, query, showExamples)>>
    /\ stream = "open"
    /\ fullResponse = <<>>
    /\ events = <<>>
    /\ parseIn \in HandledTexts
    /\ qres = QueryOk(parseIn)
    /\ response = <<parseResponse(parseIn)>>
    /\ trace = <<>>
    /\ historyFile = <<>>
    /\ historyHandles = 0
    /\ confirmIn = <<>>
    /\ stdin \in StdinContents
    /\ exitCode = <<>>

NextHandle ==
    \/ Display
    \/ SafetyCheck
    \/ SaveToHistoryOpenFails
    \/ SaveToHistoryOpen
    \/ SaveToHistoryWriteFails
    \/ SaveToHistory
    \/ \E ok \in BOOLEAN : CopyToClipboard(ok)
    \/ SkipClipboard
    \/ ExecutePrompt
    \/ SkipExecute
    \/ \E ahead \in 0..MaxStdin : Confirm(<<>>, ahead)
    \/ \E ok \in BOOLEAN, used \in 0..MaxStdin : RunShell(ok, used)
    \/ HandleReturn

SpecHandle == InitHandle /\ [][NextHandle]_vars

----------------------------------------------------------------------------
(* setupConfig on every environment, config file and first-time setup *)

ProviderNames == {"", "anthropic", "claude", "OpenAI", "chatgpt", "lmstudio", "bogus"}

Environs ==
    [HOWTFDOI_AI_PROVIDER : ProviderNames,
     ANTHROPIC_API_KEY : {"", "ea"}, OPENAI_API_KEY : {"", "eo"},
     LMSTUDIO_BASE_URL : {"", "eu"}, LMSTUDIO_MODEL : {"", "em"}]

FileConfigs ==
    [Provider : {"", "anthropic", "openai", "chatgpt", "LMStudio", "bogus"},
     AnthropicKey : {"", "fa"}, OpenAIKey : {"", "fo"},
     LMStudioBaseURL : {"", "fu"}, LMStudioModel : {"", "fm"}]

\* what the user answers to runFirstTimeSetup; the save fails in one case
SetupAnswers ==
    [choice : {"", "2", "3"}, first : {"", "w"}, second : {"", "v"}, saved : {TRUE}]
        \cup {[choice |-> "2", first |-> "w", second |-> "", saved |-> FALSE]}

InitConfig ==
    /\ environ \in Environs
    /\ fileConfig \in FileConfigs
    /\ firstTimeSetup \in {<<>>} \cup {<<a>> : a \in SetupAnswers}
    /\ apiKey = ""
    /\ lmStudioBaseURL = ""
    /\ lmStudioModel = ""
    /\ provider = ""
    /\ verbose = FALSE
    /\ mode \in Modes
    /\ pc = "setupConfig"
    /\ nQueries = 0
    /\ providersMade = <<>>
    /\ stdin = <<>>
    /\ platform = "linux"
    /\ line = <<>>
    /\ showExamples = FALSE
    /\ request = <<>>
    /\ query = <<>>
    /\ opts = NoOptions
    /\ stream = "none"
    /\ fullResponse = <<>>
    /\ events = <<>>
    /\ qres = NoResult
    /\ parseIn = <<>>
    /\ response = <<>>
    /\ trace = <<>>
    /\ historyFile = <<>>
    /\ historyHandles = 0
    /\ confirmIn = <<>>
    /\ exitCode = <<>>

\* main 344: setupConfig(verbose) returns the Config or exits with status 1
SetupConfig ==
    /\ pc = "setupConfig"
    /\ LET c == setupConfig(environ, fileConfig, firstTimeSetup)
       IN  IF c.exit
           THEN /\ pc' = "exited"
                /\ exitCode' = <<1>>
                /\ UNCHANGED <<provider, apiKey, lmStudioBaseURL,
                               lmStudioModel>>
           ELSE /\ pc' = "configured"
                /\ exitCode' = exitCode
                /\ provider' = c.Provider
                /\ apiKey' = c.APIKey
                /\ lmStudioBaseURL' = c.LMStudioBaseURL
                /\ lmStudioModel' = c.LMStudioModel
    /\ UNCHANGED <<environ, fileConfig, firstTimeSetup, verbose, platform, mode,
                   nQueries, providersMade, stdin, line, query, opts,
                   showExamples, queryVars, parseIn, response, trace,
                   historyFile, historyHandles, confirmIn>>

MissingAPIKeyNever(key, p) == FALSE

\* main 348: the condition of the API key check
MissingAPIKey(key, p) == key = "" /\ p # providerLMStudio

\* main 350-358: the error message
MissingKeyMessage(p) ==
    IF p = providerAnthropic
    THEN "Error: No Anthropic API key found"
    ELSE "Error: No OpenAI API key found"

\* main 347-361: the API key check, os.Exit(1) when the key is missing
CheckAPIKey ==
    /\ pc = "configured"
    /\ IF MissingAPIKey(apiKey, provider)
       THEN /\ trace' = Append(trace, Ev("main", "error",
                                         <<MissingKeyMessage(provider)>>))
            /\ pc' = "exited"
            /\ exitCode' = <<1>>
       ELSE /\ trace' = trace
            /\ pc' = "main"
            /\ exitCode' = exitCode
    /\ UNCHANGED <<config, providersMade, stdin, nQueries, line, query, opts,
                   showExamples, queryVars, parseIn, response, historyFile,
                   historyHandles, confirmIn>>

\* setupConfig, the key check, and main up to the request of the first query
NextConfig ==
    \/ SetupConfig
    \/ CheckAPIKey
    \/ \E q \in Queries : MainSingle(q, NoOptions, FALSE)
    \/ MainInteractive
    \/ \E q \in Queries : ReadLine(q)
    \/ AnthropicQuery
    \/ \E ok \in BOOLEAN : OpenAIQuery(ok)
    \/ \E ok \in BOOLEAN : LMStudioQuery(ok)

SpecConfig == InitConfig /\ [][NextConfig]_vars

----------------------------------------------------------------------------
(* Stream aggregation: C1, C7 (checked under SpecQuery) *)

\* the answer text an event of the current stream carries
EventText(ev) ==
    IF provider = "anthropic"
    THEN IF ev.Type = "content_block_delta" THEN ev.Text ELSE <<>>
    ELSE IF ev.Choices # <<>> THEN ev.Choices[1].Content ELSE <<>>

\* the texts of the events, concatenated in the order of arrival
RECURSIVE ConcatTexts(_)
ConcatTexts(evs) ==
    IF evs = <<>> THEN <<>>
    ELSE ConcatTexts(SubSeq(evs, 1, Len(evs) - 1)) \o EventText(evs[Len(evs)])

TextFragmentCount == Cardinality({i \in 1..Len(events) : EventText(events[i]) # <<>>})

\* C1: when Query returns after an error that follows N > 0 text fragments, it
\* returns the error with the empty string, never the fragments received.
C1_ErrorDiscardsPartialText ==
    (pc = "queried" /\ qres.err /\ TextFragmentCount > 0)
        => (qres.set /\ qres.text = <<>>)

C1_Witness ==
    /\ pc = "queried"
    /\ qres.err
    /\ TextFragmentCount >= 2
    /\ fullResponse # <<>>
    /\ provider = "lmstudio"

\* C7: when Query returns without error, the text is the concatenation, in
\* arrival order, of the fragments of the text-bearing events, untrimmed;
\* other events and chunks without a choice add nothing.
C7_SuccessIsConcatenation ==
    (pc = "queried" /\ qres.set /\ ~ qres.err)
        => qres.text = ConcatTexts(events)

C7_Witness ==
    /\ pc = "queried"
    /\ ~ qres.err
    /\ provider = "anthropic"
    /\ events = << [Type |-> "content_block_delta", Text |-> FragNL],
                   [Type |-> "content_block_start", Text |-> FragLs],
                   [Type |-> "content_block_delta", Text |-> FragRm] >>
    /\ qres.text = FragNL \o FragRm

----------------------------------------------------------------------------
(* The pipeline: C2 .. C6 (checked under Spec) *)

PipelinePcs == {"display", "safety", "history", "historyWrite", "clipboard",
                "execute", "confirm", "shell", "handled"}

PipelineSteps == {"display", "warning", "history", "clipboard", "execute"}

Happened(step, what) ==
    \E i \in 1..Len(trace) : trace[i].step = step /\ trace[i].what = what

HappenedWith(step, what, arg) ==
    \E i \in 1..Len(trace) : trace[i] = Ev(step, what, arg)

StepHappened(step) == \E i \in 1..Len(trace) : trace[i].step = step

\* C2: once the provider call of a query has failed, no step of that query
\* shows an answer, warns, touches the history file, copies or executes: the
\* control goes back to the prompt or the process exits, and no Response exists.
C2_FailedQueryRunsNoStep ==
    [][ (qres.err \/ qres'.err)
            => /\ historyFile' = historyFile
               /\ pc' \notin PipelinePcs
               /\ response' = <<>>
               /\ \A i \in 1..Len(trace') : trace'[i].step \notin PipelineSteps ]_vars

C2_Witness ==
    /\ qres.err
    /\ pc = "readline"
    /\ nQueries = 2
    /\ opts.CopyToClipboard /\ opts.Execute
    /\ historyFile # <<>>
    /\ trace = <<Ev("error", "query", <<>>)>>

\* the confirmation inputs whose trimmed, lower-cased value is "y" or "yes"
AffirmativeInputs ==
    { <<"y", NL>>, <<"Y", "E", "S", "\r", NL>>, <<" ", "y", "e", "s">> }

\* C3: the shell is given a command only after that command was shown with the
\* prompt and an affirmative line was read; after any other input the shell is
\* not invoked, "Cancelled." is printed and executeCommand has returned without
\* error.
C3_ShellOnlyAfterConfirmation ==
    /\ \A i \in 1..Len(trace) :
          trace[i].what = "shell"
              => /\ \E j \in 1..(i-1) :
                        trace[j] = Ev("execute", "prompt", trace[i].arg)
                 /\ confirmIn # <<>>
                 /\ confirmIn[1] \in AffirmativeInputs
    /\ (confirmIn # <<>> /\ confirmIn[1] \notin AffirmativeInputs)
          => /\ ~ Happened("execute", "shell")
             /\ trace[Len(trace)] = Ev("execute", "cancelled", <<>>)
             /\ pc \in {"handled", "exited"}
             /\ exitCode \in {<<>>, <<0>>}

C3_Witness ==
    /\ pc = "handled"
    /\ confirmIn = << <<"Y", "E", "S", "\r", NL>> >>
    /\ HappenedWith("execute", "shell", <<FragRm>>)

StepRank(step) ==
    CASE step = "display"   -> 1
      [] step = "warning"   -> 2
      [] step = "history"   -> 3
      [] step = "clipboard" -> 4
      [] step = "execute"   -> 5
      [] OTHER              -> 0

PcRank(p) ==
    CASE p = "display"   -> 1
      [] p = "safety"    -> 2
      [] p \in {"history", "historyWrite"} -> 3
      [] p = "clipboard" -> 4
      [] p \in {"execute", "confirm", "shell"} -> 5
      [] OTHER -> 6

\* C4: the effects of one handleResponse call are in the order display,
\* warning, history, clipboard, execution, the display coming first; and when
\* a step is about to run, only the steps before it have had an effect.
C4_FixedStepOrder ==
    (pc \in PipelinePcs) =>
        /\ \A i, j \in 1..Len(trace) :
              i < j => StepRank(trace[i].step) <= StepRank(trace[j].step)
        /\ \A i \in 1..Len(trace) :
              /\ trace[i].step \in PipelineSteps
              /\ StepRank(trace[i].step) <= PcRank(pc)
              /\ pc \in {"display", "safety", "history", "clipboard", "execute"}
                    => StepRank(trace[i].step) < PcRank(pc)
        /\ PcRank(pc) > 1 => (trace # <<>> /\ trace[1].step = "display")
        /\ PcRank(pc) > 3 => StepHappened("history")

C4_Witness ==
    /\ pc = "handled"
    /\ StepHappened("display")
    /\ StepHappened("warning")
    /\ StepHappened("history")
    /\ StepHappened("clipboard")
    /\ Happened("execute", "shell")

HistoryFailed == Happened("history", "openfail") \/ Happened("history", "writefail")

Requested(flag) == flag /\ response # <<>> /\ response[1].Command # <<>>

\* C5: a history file that cannot be opened or written stops nothing: the
\* display has been done, handleResponse goes on, and when it has returned the
\* clipboard copy and the prompt (and the shell, after an affirmative answer)
\* have happened whenever they were requested for a non-empty command.
C5_HistoryFailureIsolated ==
    (pc \in PipelinePcs /\ HistoryFailed) =>
        /\ trace[1].step = "display"
        /\ exitCode = <<>>
        /\ pc \in {"clipboard", "execute", "confirm", "shell", "handled"}
        /\ pc = "handled" =>
              /\ Requested(opts.CopyToClipboard) => StepHappened("clipboard")
              /\ Requested(opts.Execute) =>
                    /\ Happened("execute", "prompt")
                    /\ confirmIn[1] \in AffirmativeInputs
                          => Happened("execute", "shell")

C5_Witness ==
    /\ pc = "handled"
    /\ Happened("history", "openfail")
    /\ Happened("clipboard", "copied")
    /\ Happened("execute", "shell")

\* C6: for a command isDangerous matches, the warning is shown and the history
\* entry is still written, the clipboard is still written when -c is set and the
\* prompt and the confirmed execution still take place when -x is set.
C6_WarningDoesNotBlock ==
    (pc = "handled" /\ isDangerous(response[1].Command)) =>
        /\ StepHappened("warning")
        /\ StepHappened("history")
        /\ Happened("history", "saved")
              => \E n \in 0..Len(historyFile) :
                    historyFile = SubSeq(historyFile, 1, n)
                        \o HistoryEntry(query, response[1].FullText)
        /\ opts.CopyToClipboard
              <=> HappenedWith("clipboard", "copied", <<response[1].Command>>)
                     \/ HappenedWith("clipboard", "failed", <<response[1].Command>>)
        /\ opts.Execute
              <=> HappenedWith("execute", "prompt", <<response[1].Command>>)
        /\ (opts.Execute /\ confirmIn[1] \in AffirmativeInputs)
              <=> HappenedWith("execute", "shell", <<response[1].Command>>)

C6_Witness ==
    /\ pc = "handled"
    /\ response[1].Command = FragRm
    /\ StepHappened("warning")
    /\ Happened("history", "saved")
    /\ Happened("clipboard", "copied")
    /\ Happened("execute", "shell")

----------------------------------------------------------------------------
(* The parser: C8, C9, C10 (checked under SpecParse) *)

\* The lines of a text, read off the positions of its newlines: line k lies
\* between the (k-1)-th and the k-th newline.
NLPositions(t) == {p \in 1..Len(t) : t[p] = NL}

LineCount(t) == Cardinality(NLPositions(t)) + 1

\* position of the k-th newline of t; 0 for k = 0, Len(t)+1 past the last one
NLPosition(t, k) ==
    IF k = 0 THEN 0
    ELSE IF k > Cardinality(NLPositions(t)) THEN Len(t) + 1
    ELSE CHOOSE p \in NLPositions(t) :
            Cardinality({q \in NLPositions(t) : q < p}) = k - 1

LineOf(t, k) == SubSeq(t, NLPosition(t, k-1) + 1, NLPosition(t, k) - 1)

Blank(l) == \A i \in 1..Len(l) : IsSpace(l[i])

\* l without the white space before its first and after its last other character
Trimmed(l) ==
    IF Blank(l) THEN <<>>
    ELSE LET ink == {i \in 1..Len(l) : ~ IsSpace(l[i])}
             first == CHOOSE i \in ink : \A j \in ink : i <= j
             last == CHOOSE i \in ink : \A j \in ink : j <= i
         IN  SubSeq(l, first, last)

\* the numbers of the non-blank lines of t and the m-th of them
NonBlankLines(t) == {k \in 1..LineCount(t) : ~ Blank(LineOf(t, k))}

NonBlankLine(t, m) ==
    CHOOSE k \in NonBlankLines(t) :
        Cardinality({j \in NonBlankLines(t) : j < k}) = m - 1

\* e is the lines ls joined by newlines (no line of ls is empty or has a newline)
IsJoinOf(e, ls) ==
    IF Len(ls) = 0 THEN e = <<>>
    ELSE /\ LineCount(e) = Len(ls)
         /\ \A k \in 1..Len(ls) : LineOf(e, k) = ls[k]

\* C8: for a text with a non-blank line, command is the first non-blank line,
\* trimmed; explanation is the other non-blank lines, each trimmed, joined by
\* newlines in their order (empty when there is none); fullText is the input.
C8_CommandAndExplanation ==
    (pc = "parsed" /\ NonBlankLines(parseIn) # {}) =>
        LET r == response[1]
            n == Cardinality(NonBlankLines(parseIn))
        IN  /\ r.Command = Trimmed(LineOf(parseIn, NonBlankLine(parseIn, 1)))
            /\ IsJoinOf(r.Explanation,
                        [m \in 1..(n-1) |->
                            Trimmed(LineOf(parseIn, NonBlankLine(parseIn, m + 1)))])
            /\ r.FullText = parseIn

C8_Witness ==
    /\ pc = "parsed"
    /\ parseIn = <<NL, " ", "a", NL, "b">>
    /\ response[1].Command = <<"a">>
    /\ response[1].Explanation = <<"b">>

\* C9: parseResponse returns a Response for every text; command is empty
\* exactly when the text has no non-blank line, and then explanation is empty
\* too; fullText is the input.
C9_ParseNeverFails ==
    (pc = "parsed") =>
        /\ Len(response) = 1
        /\ response[1].FullText = parseIn
        /\ response[1].Command = <<>> <=> Blank(parseIn)
        /\ response[1].Command = <<>> => response[1].Explanation = <<>>

C9_Witness ==
    /\ pc = "parsed"
    /\ parseIn = <<" ", NL, NL, " ">>
    /\ response[1] = [Command |-> <<>>, Explanation |-> <<>>, FullText |-> parseIn]

CleanText(t) == LineCount(t) >= 2 /\ \A k \in 1..LineCount(t) : ~ Blank(LineOf(t, k))

\* C10 as stated: for a text of two or more lines, none blank, command is the
\* first line and explanation the other lines joined by newlines, so that
\* command, a newline and explanation make up the text again.
C10_Original ==
    (pc = "parsed" /\ CleanText(parseIn)) =>
        /\ response[1].Command = LineOf(parseIn, 1)
        /\ response[1].Command \o <<NL>> \o response[1].Explanation = parseIn

\* C10 as amended: for a text of two or more lines, none blank, command is the
\* first line trimmed and explanation is the other lines, each trimmed, joined
\* by newlines; they are the lines themselves when no line begins or ends with
\* white space.
C10_CleanText ==
    (pc = "parsed" /\ CleanText(parseIn)) =>
        LET r == response[1]
            n == LineCount(parseIn)
        IN  /\ r.Command = Trimmed(LineOf(parseIn, 1))
            /\ LineCount(r.Explanation) = n - 1
            /\ \A k \in 2..n :
                  LineOf(r.Explanation, k - 1) = Trimmed(LineOf(parseIn, k))
            /\ (\A k \in 1..n : Trimmed(LineOf(parseIn, k)) = LineOf(parseIn, k))
                  => r.Command \o <<NL>> \o r.Explanation = parseIn

C10_Witness ==
    /\ pc = "parsed"
    /\ parseIn = <<" ", "a", NL, "b", " ">>
    /\ response[1].Command = <<"a">>
    /\ response[1].Explanation = <<"b">>

----------------------------------------------------------------------------
(* The safety matcher: C11 (checked under SpecDanger) *)

\* the commands of Commands in which a pattern of lines 68-76 occurs
DangerousCommands == {CmdRmRoot, CmdMkfs, CmdDd, CmdForkBomb, CmdRmStar, CmdSd,
                      CmdMv, CmdBrace}

\* C11: isDangerous is true exactly for the commands in which one of the
\* patterns occurs somewhere: true for "rm -rf /", "sudo mkfs.ext4 /dev/sda1",
\* "dd if=/dev/zero of=/dev/sda" and ":(){ :|:& };:", false for "ls -la" and
\* "git status", whatever the order in which the patterns are listed.
C11_DangerousIsOrOfPatterns ==
    (pc = "checked") =>
        /\ Len(trace) = 1
        /\ trace[1].what = "dangerous" <=> response[1].Command \in DangerousCommands
        /\ trace[1].what = "safe" <=> response[1].Command \notin DangerousCommands
        /\ response[1].Command \in {CmdRmRoot, CmdMkfs, CmdDd, CmdForkBomb}
              => trace[1].what = "dangerous"
        /\ response[1].Command \in {CmdLs, CmdGit} => trace[1].what = "safe"

C11_Witness ==
    /\ pc = "checked"
    /\ response[1].Command = CmdForkBomb
    /\ trace[1].arg = <<7, 6, 5, 4, 3, 2, 1>>
    /\ trace[1].what = "dangerous"

----------------------------------------------------------------------------
(* Optional steps, history records and handles: C12 .. (checked under Spec) *)

\* C12: the clipboard is written only with the copy option and a non-empty
\* command; the prompt, the confirmation and the shell are reached only with
\* the execute option and a non-empty command; for a response without a
\* non-blank line neither happens, whatever the options.
C12_OptionalStepsNeedCommand ==
    (response # <<>>) =>
        /\ StepHappened("clipboard")
              => (opts.CopyToClipboard /\ ~ Blank(response[1].FullText))
        /\ (StepHappened("execute") \/ pc \in {"confirm", "shell"})
              => (opts.Execute /\ ~ Blank(response[1].FullText))
        /\ Blank(response[1].FullText)
              => /\ ~ StepHappened("clipboard")
                 /\ ~ StepHappened("execute")
                 /\ pc \notin {"confirm", "shell"}
                 /\ confirmIn = <<>>

C12_Witness ==
    /\ pc = "handled"
    /\ opts.CopyToClipboard /\ opts.Execute
    /\ response[1].FullText = FragNL
    /\ Happened("history", "saved")
    /\ ~ StepHappened("clipboard")
    /\ ~ StepHappened("execute")

\* the record of one handled query: the line "[timestamp] query", the text as
\* the backend sent it, and a line "---"
HistoryRecord(q, text) ==
    <<"[", "T", "]", " ">> \o q \o <<NL>> \o text \o <<NL>>
        \o <<"-", "-", "-">> \o <<NL>>

\* C13: no step changes the bytes already in the history file, only the write
\* of saveToHistory changes the file, and a write that succeeds adds exactly
\* the record of the query at the end; so the records are in the order of the
\* handled queries.
C13_HistoryAppendsOneRecord ==
    [][ /\ Len(historyFile') >= Len(historyFile)
        /\ SubSeq(historyFile', 1, Len(historyFile)) = historyFile
        /\ historyFile' # historyFile => pc = "historyWrite"
        /\ (pc = "historyWrite" /\ Happened("history", "saved")')
              => historyFile' = historyFile
                                  \o HistoryRecord(query, response[1].FullText)
      ]_vars

C13_Witness ==
    /\ pc = "handled"
    /\ nQueries = 2
    /\ response[1].FullText = FragRm
    /\ historyFile = HistoryRecord(<<"q">>, FragLs) \o HistoryRecord(<<"q">>, FragRm)

\* C19: a handle on the history file is open only between the open and the
\* end of the write of one saveToHistory call: at most one at any time, none
\* once saveToHistory has returned, after a write that failed as after one
\* that succeeded, and so none when the next query starts.
C19_HistoryHandleClosed ==
    /\ historyHandles \in {0, 1}
    /\ historyHandles = 1 <=> pc = "historyWrite"
    /\ pc \in {"readline", "runQuery", "exited"} => historyHandles = 0

C19_Witness ==
    /\ pc = "clipboard"
    /\ nQueries = 2
    /\ Happened("history", "writefail")
    /\ historyFile = HistoryRecord(<<"q">>, FragLs) \o <<"[">>
    /\ historyHandles = 0

----------------------------------------------------------------------------
(* Streams and the request context: C14, C15 (SpecQuery), C18 (Spec) *)

\* C14: when Query has returned, with the text or with an error, the stream
\* it opened has been released.
C14_StreamReleasedOnReturn ==
    (pc = "queried") => stream # "open"

\* What the backend sends, whatever the provider: a text fragment or an event
\* without answer text.
AbstractEvent(ev) ==
    IF provider = "anthropic"
    THEN IF ev.Type = "content_block_delta"
         THEN [kind |-> "text", text |-> ev.Text]
         ELSE [kind |-> "other", text |-> <<>>]
    ELSE IF ev.Choices # <<>>
         THEN [kind |-> "text", text |-> ev.Choices[1].Content]
         ELSE [kind |-> "other", text |-> <<>>]

\* the same event as the backend of provider p sends it
EventFor(p, a) ==
    IF p = "anthropic"
    THEN IF a.kind = "text"
         THEN [Type |-> "content_block_delta", Text |-> a.text]
         ELSE [Type |-> "content_block_start", Text |-> FragLs]
    ELSE IF a.kind = "text"
         THEN [Choices |-> <<[Content |-> a.text]>>]
         ELSE [Choices |-> <<>>]

\* the builder of variant p after the events evs, in their order
RECURSIVE Aggregate(_, _)
Aggregate(p, evs) ==
    IF evs = <<>> THEN <<>>
    ELSE LET b == Aggregate(p, SubSeq(evs, 1, Len(evs) - 1))
             ev == evs[Len(evs)]
         IN  CASE p = "anthropic" -> AnthropicAppend(b, ev)
               [] p = "openai"    -> OpenAIAppend(b, ev)
               [] p = "lmstudio"  -> LMStudioAppend(b, ev)

\* what variant p returns for the events of the current call, sent its way
OutcomeOf(p, failed) ==
    LET b == Aggregate(p, [i \in 1..Len(events) |->
                              EventFor(p, AbstractEvent(events[i]))])
    IN  IF failed THEN QueryError(b) ELSE QueryOk(b)

\* C15: whichever variant ran, each of the three variants returns the same
\* (text, error) for the same sequence of text fragments and other events,
\* ended by the end of the stream or by an error.
C15_VariantsInterchangeable ==
    (pc = "queried") =>
        \A p \in Providers : OutcomeOf(p, qres.err) = qres

C15_Witness ==
    /\ pc = "queried"
    /\ provider = "anthropic"
    /\ ~ qres.err
    /\ events = << [Type |-> "content_block_delta", Text |-> FragLs],
                   [Type |-> "content_block_start", Text |-> FragLs],
                   [Type |-> "content_block_delta", Text |-> FragRm] >>
    /\ OutcomeOf("lmstudio", FALSE) = QueryOk(FragLs \o FragRm)
    /\ OutcomeOf("openai", FALSE) = qres

\* C18: the provider call has a cancellable context, and an interrupt while
\* text is being aggregated ends as a mid-stream error does: Query has
\* returned an error with the empty text, and no pipeline step has run.
C18_AbortIsMidStreamError ==
    (exitCode = <<InterruptStatus>> /\ TextFragmentCount > 0) =>
        /\ Cancellable(RequestContext)
        /\ qres.set /\ qres.err /\ qres.text = <<>>
        /\ \A i \in 1..Len(trace) : trace[i].step \notin PipelineSteps

----------------------------------------------------------------------------
(* The interactive loop and the executed command: C16, C17 (checked under Spec) *)

\* every step of handleResponse the query asked for has been done
PipelineComplete ==
    /\ response # <<>>
    /\ trace # <<>> /\ trace[1].step = "display"
    /\ StepHappened("history")
    /\ historyHandles = 0
    /\ Requested(opts.CopyToClipboard) => StepHappened("clipboard")
    /\ Requested(opts.Execute) =>
          /\ Happened("execute", "prompt")
          /\ confirmIn # <<>>
          /\ IF confirmIn[1] \in AffirmativeInputs
             THEN Happened("execute", "shell")
             ELSE Happened("execute", "cancelled")

\* C16: the loop comes to read a line only from the start of the session,
\* from a provider call that failed, or from a handleResponse call that has
\* done every step, the confirmation and the executed command included; and
\* a query starts only there, with nothing of the query before it pending.
C16_QueriesRunOneAfterAnother ==
    [][ /\ (pc' = "readline" /\ pc # "readline")
              => \/ pc = "main"
                 \/ pc = "queried" /\ qres.err
                 \/ pc = "handled" /\ PipelineComplete
        /\ (mode = "interactive" /\ nQueries' # nQueries)
              => /\ pc = "readline" /\ pc' = "runQuery"
                 /\ nQueries' = nQueries + 1
                 /\ historyHandles = 0
      ]_vars

C16_Witness ==
    /\ mode = "interactive"
    /\ nQueries = 2
    /\ pc = "handled"
    /\ PipelineComplete
    /\ Happened("clipboard", "copied")
    /\ Happened("execute", "shell")
    /\ historyFile = HistoryRecord(<<"q">>, FragRm) \o HistoryRecord(<<"q">>, FragLs)

\* C17: when the confirmed command cannot be launched or exits non-zero, the
\* error is printed and executeCommand returns: handleResponse ends as it
\* does after a command that succeeded, the exit status stays 0 in
\* single-query mode, and in interactive mode the loop reads the next line.
C17_ExecutionFailureNotFatal ==
    [][ /\ (pc = "shell" /\ Happened("execute", "error")')
              => /\ pc' = "handled"
                 /\ exitCode' = <<>>
                 /\ trace'[Len(trace')] = Ev("execute", "error", <<>>)
        /\ (pc = "handled" /\ Happened("execute", "error"))
              => IF mode = "single"
                 THEN pc' = "exited" /\ exitCode' = <<0>>
                 ELSE pc' = "readline" /\ exitCode' = <<>>
      ]_vars

C17_Witness ==
    /\ mode = "interactive"
    /\ nQueries = 1
    /\ pc = "handled"
    /\ exitCode = <<>>
    /\ trace[Len(trace)] = Ev("execute", "error", <<>>)
    /\ HappenedWith("execute", "shell", <<FragRm>>)

----------------------------------------------------------------------------
(* The configuration: C20 (checked under SpecConfig) *)

\* the provider a name stands for
ProviderNamed(name) ==
    CASE name \in {"anthropic", "claude"} -> "anthropic"
      [] name \in {"openai", "OpenAI", "chatgpt"} -> "openai"
      [] name \in {"lmstudio", "LMStudio"} -> "lmstudio"

EnvProviderNames == {"anthropic", "claude", "OpenAI", "chatgpt", "lmstudio"}
FileProviderNames == {"anthropic", "openai", "chatgpt", "LMStudio"}

\* the environment value, else the config file value, else the default
ByPriority(env, file, default) ==
    IF env # "" THEN env ELSE IF file # "" THEN file ELSE default

\* C20: when setupConfig returns without the first-time setup, every setting
\* is the environment value when that is not empty, else the config file
\* value when that is not empty, else the default: the provider a known name
\* stands for, the API key of the selected provider, the LM Studio base URL
\* and the LM Studio model.
C20_EnvThenFileThenDefault ==
    (pc = "configured" /\ firstTimeSetup = <<>>) =>
        /\ environ.HOWTFDOI_AI_PROVIDER \in EnvProviderNames
              => provider = ProviderNamed(environ.HOWTFDOI_AI_PROVIDER)
        /\ (environ.HOWTFDOI_AI_PROVIDER = ""
                /\ fileConfig.Provider \in FileProviderNames)
              => provider = ProviderNamed(fileConfig.Provider)
        /\ provider = "anthropic"
              => apiKey = ByPriority(environ.ANTHROPIC_API_KEY,
                                     fileConfig.AnthropicKey, "")
        /\ provider = "openai"
              => apiKey = ByPriority(environ.OPENAI_API_KEY, fileConfig.OpenAIKey, "")
        /\ provider = "lmstudio"
              => /\ lmStudioBaseURL
                       = ByPriority(environ.LMSTUDIO_BASE_URL,
                                    fileConfig.LMStudioBaseURL,
                                    "http://localhost:1234/v1")
                 /\ lmStudioModel
                       = ByPriority(environ.LMSTUDIO_MODEL, fileConfig.LMStudioModel,
                                    "local-model")

----------------------------------------------------------------------------
(* Provider auto-detection: C21 (checked under SpecConfig) *)

FileSelectsOther ==
    LowerName(fileConfig.Provider) \in {"openai", "chatgpt", "lmstudio"}

----------------------------------------------------------------------------
(* The API key check of main: C22 (checked under SpecConfig) *)

\* main has reported a missing key
MissingKeyReported == Happened("main", "error")

\* C22: once setupConfig has returned a configuration and main has checked
\* it, an empty key with a provider other than LM Studio means that the
\* process has reported the missing key and exited with status 1, with no
\* query started and no provider stream made; so wherever a query was started
\* or a stream made for Anthropic or OpenAI the key is not empty. LM Studio
\* never has the missing key reported.
C22_KeyCheckedBeforeAnyQuery ==
    /\ (pc \notin {"setupConfig", "configured"} /\ provider # ""
            /\ apiKey = "" /\ provider # "lmstudio")
          => /\ pc = "exited"
             /\ exitCode = <<1>>
             /\ MissingKeyReported
             /\ nQueries = 0
             /\ stream = "none"
    /\ ((nQueries > 0 \/ stream # "none" \/ pc \in {"main", "readline", "runQuery"})
            /\ provider \in {"anthropic", "openai"})
          => apiKey # ""
    /\ provider = "lmstudio" => ~ MissingKeyReported

\* OpenAI was selected without a key: main reported it and exited
C22_Witness ==
    /\ pc = "exited"
    /\ provider = "openai"
    /\ apiKey = ""
    /\ exitCode = <<1>>
    /\ trace = <<Ev("main", "error", <<"Error: No OpenAI API key found">>)>>
    /\ nQueries = 0

----------------------------------------------------------------------------
(* The provider setupConfig returns: C30 (checked under SpecConfig) *)

\* C30: for every environment, config file and first-time setup answer, the
\* provider setupConfig returns is anthropic, openai or lmstudio, with a base
\* URL and a model that are not empty when it is lmstudio; and whenever
\* runQuery runs, its switch makes a provider and does not take the
\* "unsupported provider" branch.
C30_ProviderAlwaysSupported ==
    /\ pc = "configured"
          => /\ provider \in {"anthropic", "openai", "lmstudio"}
             /\ provider = "lmstudio"
                   => (lmStudioBaseURL # "" /\ lmStudioModel # "")
    /\ pc = "runQuery" => NewProvider(provider) # "unsupported provider"

\* an unknown provider name in the environment: runQuery runs with Anthropic
C30_Witness ==
    /\ pc = "runQuery"
    /\ environ.HOWTFDOI_AI_PROVIDER = "bogus"
    /\ fileConfig.Provider = "bogus"
    /\ provider = "anthropic"
    /\ NewProvider(provider) = "AnthropicProvider"

----------------------------------------------------------------------------
(* The danger warning: C23 (checked under Spec) *)

\* C23: the safety check of handleResponse leaves the warning exactly when
\* isDangerous is true of the command, the display having been made and no
\* prompt yet; no other step adds the warning; so when the prompt is shown and
\* when the shell runs a command isDangerous is true of, the warning has been
\* shown before in the same run.
C23_WarningExactlyWhenDangerous ==
    [][ /\ (pc = "safety" /\ pc' # "safety")
              => /\ StepHappened("warning")' <=> isDangerous(response[1].Command)
                 /\ StepHappened("display")
                 /\ ~ StepHappened("execute")'
        /\ (~ StepHappened("warning") /\ StepHappened("warning")')
              => pc = "safety"
        /\ ((pc = "execute" /\ pc' = "confirm") \/ (pc = "shell" /\ pc' # "shell"))
              => (isDangerous(response[1].Command) => StepHappened("warning"))
      ]_vars

\* "rm -rf /" is about to be run by the shell, the warning shown before the
\* prompt
C23_Witness ==
    /\ pc = "shell"
    /\ response[1].Command = FragRm
    /\ \E i, j \in 1..Len(trace) :
          /\ i < j
          /\ trace[i] = Ev("warning", "dangerous", <<>>)
          /\ trace[j] = Ev("execute", "prompt", <<FragRm>>)

----------------------------------------------------------------------------
(* A failed query: C24 (checked under Spec) *)

\* C24: when Provider.Query has returned an error, the error is reported; in
\* interactive mode the loop is back at reading a line, no exit status set and
\* the configuration as it was, and the query read next starts from a fresh
\* state with that configuration; in single-query mode the process exits with
\* status 1.
C24_FailureEndsTheQueryOnly ==
    [][ /\ (pc = "queried" /\ qres.err /\ pc' # "queried")
              => /\ Happened("error", "query")'
                 /\ config' = config
                 /\ mode = "interactive"
                       => (pc' = "readline" /\ exitCode' = <<>>)
                 /\ mode = "single"
                       => (pc' = "exited" /\ exitCode' = <<1>>)
        /\ (pc = "readline" /\ Happened("error", "query") /\ pc' = "runQuery")
              => /\ config' = config
                 /\ query' \in Queries
                 /\ qres' = NoResult
                 /\ fullResponse' = <<>>
                 /\ trace' = <<>>
      ]_vars

\* interactive mode: the first query failed, the error is reported and the
\* loop reads the next line
C24_Witness ==
    /\ mode = "interactive"
    /\ nQueries = 1
    /\ pc = "readline"
    /\ qres.err
    /\ trace = <<Ev("error", "query", <<>>)>>
    /\ exitCode = <<>>

----------------------------------------------------------------------------
(* Construction of the provider: C25 (checked under Spec) *)

\* C25 as stated: in one process the provider is selected and constructed at
\* most once, however many queries are made.
C25_Original == Len(providersMade) <= 1

\* C25: the provider is selected and constructed once for every query, by the
\* runQuery call of that query: there are as many constructions as queries
\* whose runQuery call has passed its switch (one at most in single-query
\* mode), and each one gives the variant of the unchanged configuration.
C25_ProviderMadePerQuery ==
    /\ Len(providersMade) = IF pc = "runQuery" THEN nQueries - 1 ELSE nQueries
    /\ \A i \in 1..Len(providersMade) : providersMade[i] = NewProvider(provider)
    /\ NewProvider(provider) # "unsupported provider"
    /\ mode = "single" => Len(providersMade) <= 1

\* interactive mode: the second query has its own, second provider
C25_Witness ==
    /\ mode = "interactive"
    /\ nQueries = 2
    /\ pc = "queried"
    /\ providersMade = <<"OpenAIProvider", "OpenAIProvider">>

----------------------------------------------------------------------------
(* The typed line: C26 (checked under SpecPrompt) *)

\* the tokens of a line, by the position of their first character
TokenStarts(l) ==
    {i \in 1..Len(l) : ~ IsSpace(l[i]) /\ (i = 1 \/ IsSpace(l[i-1]))}

TokenEnd(l, i) ==
    CHOOSE j \in i..Len(l) :
        /\ \A k \in i..j : ~ IsSpace(l[k])
        /\ (j = Len(l) \/ IsSpace(l[j+1]))

TokenAt(l, i) == SubSeq(l, i, TokenEnd(l, i))

HasToken(l, t) == \E i \in TokenStarts(l) : TokenAt(l, i) = t

QueryTokenStarts(l) ==
    {i \in TokenStarts(l) : TokenAt(l, i) \notin {FlagC, FlagX, FlagE}}

\* the tokens that start at the given positions, in their order in the line,
\* with one space between them
RECURSIVE JoinTokens(_, _)
JoinTokens(l, starts) ==
    IF starts = {} THEN <<>>
    ELSE LET i == CHOOSE i \in starts : \A j \in starts : i <= j
         IN  IF starts = {i} THEN TokenAt(l, i)
             ELSE TokenAt(l, i) \o <<" ">> \o JoinTokens(l, starts \ {i})

\* C26: when the interactive loop has read a line, copy, execute and examples
\* are set exactly when -c, -x and -e are among the tokens of the line, at any
\* position, and the query is the other tokens in their order with one space
\* between them; a line with no other token starts no query: the loop is back
\* at reading, no provider is made or called and no pipeline step has run.
C26_FlagsAnywhereInTheLine ==
    [][ (pc = "readline" /\ line' # line) =>
            /\ pc' \in {"readline", "runQuery"}
            /\ pc' = "runQuery"
                  => /\ query' = JoinTokens(line', QueryTokenStarts(line'))
                     /\ query' # <<>>
                     /\ opts'.CopyToClipboard <=> HasToken(line', FlagC)
                     /\ opts'.Execute <=> HasToken(line', FlagX)
                     /\ showExamples' <=> HasToken(line', FlagE)
            /\ QueryTokenStarts(line') = {} <=> pc' = "readline"
            /\ pc' = "readline"
                  => /\ nQueries' = nQueries
                     /\ providersMade' = providersMade
                     /\ request' = request
                     /\ stream' = stream
                     /\ trace' = trace
                     /\ historyFile' = historyFile
      ]_vars

\* "q -e -cc": the flag in the middle of the line is not in the query, and
\* -cc is no flag
C26_Witness ==
    /\ pc = "runQuery"
    /\ line = <<"q", " ", "-", "e", " ", "-", "c", "c">>
    /\ query = <<"q", " ", "-", "c", "c">>
    /\ showExamples
    /\ opts = NoOptions

----------------------------------------------------------------------------
(* The prompts: C27 (checked under SpecPrompt) *)

\* the platform of the configuration is among the pieces of a prompt
PlatformIn(prompt) ==
    \E i \in 1..Len(prompt) : prompt[i] = PlatformValue(platform)

\* C27: whenever Provider.Query is called, in standard mode and in examples
\* mode alike, the platform of the configuration is in the system prompt or
\* in the user query.
C27_PlatformInBothModes ==
    request # <<>> => (PlatformIn(request[1].System) \/ PlatformIn(request[1].User))

----------------------------------------------------------------------------
(* Standard input at the confirmation: C28 (checked under SpecHandle) *)

\* C28: the confirmation step takes one line from standard input and nothing
\* else: what it has read, followed by what is still waiting afterwards, is
\* what was waiting before, so every byte after the confirmation line is
\* there for the command and for later reads.
C28_ConfirmationReadsOneLine ==
    [][ (pc = "confirm" /\ pc' # "confirm") => stdin = confirmIn'[1] \o stdin' ]_vars

----------------------------------------------------------------------------
(* One command through the whole pipeline: C29 (checked under SpecHandle) *)

\* C29: during a handleResponse call the Response is the one the parser
\* returned; its command, the first non-blank line of the text, trimmed, is
\* the string displayed as the command, written to the clipboard, shown in
\* the prompt and given to the shell; the warning is shown when and only when
\* isDangerous is true of that string, so a text that is dangerous only in a
\* later line brings no warning and nothing of that line is executed.
C29_SameCommandThroughout ==
    (pc \in PipelinePcs) =>
        LET r == response[1]
        IN  /\ r = parseResponse(parseIn)
            /\ NonBlankLines(parseIn) # {}
                  => r.Command = Trimmed(LineOf(parseIn, NonBlankLine(parseIn, 1)))
            /\ \A i \in 1..Len(trace) :
                  /\ (trace[i].step = "display" /\ trace[i].what = "command")
                        => trace[i].arg[1] = r.Command
                  /\ (trace[i].step = "clipboard"
                          /\ trace[i].what \in {"copied", "failed"})
                        => trace[i].arg = <<r.Command>>
                  /\ (trace[i].step = "execute"
                          /\ trace[i].what \in {"prompt", "shell"})
                        => trace[i].arg = <<r.Command>>
                  /\ trace[i].step = "warning" => isDangerous(r.Command)
            /\ (PcRank(pc) > PcRank("safety") /\ isDangerous(r.Command))
                  => StepHappened("warning")

\* "ls" followed by the line "rm -rf /": "ls" was copied and run, without a
\* warning
C29_Witness ==
    /\ pc = "handled"
    /\ parseIn = TextLsThenRm
    /\ response[1].Explanation = FragRm
    /\ ~ StepHappened("warning")
    /\ HappenedWith("clipboard", "copied", <<<<"l", "s">>>>)
    /\ HappenedWith("execute", "prompt", <<<<"l", "s">>>>)
    /\ HappenedWith("execute", "shell", <<<<"l", "s">>>>)

=============================================================================
